---- MODULE Spec2Model ----
(***************************************************************************)
(* A model of ShellCommandExecutor (src/src/ifw/shell/exec_shell.py): the  *)
(* session state (tracked directory, previous directory, environment PWD,  *)
(* history, capture buffer), the cd builtin, the PTY path of               *)
(* _execute_with_pty with its relay worker _handle_pty_io running          *)
(* concurrently, _cleanup_pty, and the operating-system state they act on  *)
(* (real working directory, directory status, descriptors, child           *)
(* processes, host terminal mode).                                         *)
(***************************************************************************)
EXTENDS Naturals, Integers, Sequences, FiniteSets, TLC

(***************************************************************************)
(* Bounds of the model.                                                    *)
(***************************************************************************)
\* execute_shell_command / reset_state calls per session, and how many of
\* them take the PTY path
MaxCalls == 2
MaxPty == 2
\* the same in the environment that exercises the directory logic
MaxDirCalls == 3
MaxDirPty == 1
\* chunks a child writes to its terminal
MaxChunks == 1
\* the same in the environment that exercises the order of the relay
MaxOrderChunks == 2
\* interrupts per session: KeyboardInterrupts delivered to the main flow and
\* interrupt_current_command calls that find a running child
MaxIntr == 1

(***************************************************************************)
(* Paths are sequences of components; <<>> is "/".                         *)
(***************************************************************************)
Root == << >>
HomeDir == <<"h">>
WorkDir == <<"h", "w">>
TmpDir == <<"t">>
\* the directory the host process is started in (os.getcwd() in __init__)
StartDir == WorkDir
\* os.environ["PWD"] of the host process
HostEnvPWD == StartDir
\* directories that exist for the whole session; TmpDir's status varies
FixedDirs == {Root, HomeDir, WorkDir}

NoDir == <<"?none">>

\* os.path.normpath on the components of an absolute path
RECURSIVE NormFrom(_, _)
NormFrom(done, rest) ==
    IF rest = << >> THEN done
    ELSE LET c == Head(rest) IN
         IF c = "." THEN NormFrom(done, Tail(rest))
         ELSE IF c = ".."
              THEN NormFrom(IF done = << >> THEN done
                            ELSE SubSeq(done, 1, Len(done) - 1), Tail(rest))
              ELSE NormFrom(Append(done, c), Tail(rest))

\* os.path.abspath of an absolute path
AbsPath(p) == NormFrom(<< >>, p)

\* os.path.join(base, rel) for a relative rel
JoinPath(base, rel) == base \o rel

(***************************************************************************)
(* Commands.  A cd command carries its argument; every other command is    *)
(* run by the shell.                                                       *)
(***************************************************************************)
CdArgs ==
    { [k |-> "none", p |-> << >>],
      [k |-> "dash", p |-> << >>],
      [k |-> "abs",  p |-> TmpDir],
      [k |-> "abs",  p |-> <<"h", "w", "..", "x">>],
      [k |-> "rel",  p |-> <<"..">>],
      [k |-> "rel",  p |-> <<"w">>],
      [k |-> "tilde", p |-> <<"w">>] }

RunCmd == [k |-> "run", p |-> << >>]
Commands == CdArgs \cup {RunCmd}

\* the first whitespace-separated token of a command; the history of the
\* model keeps this token of each command
FirstToken(c) == IF c.k = "run" THEN "run" ELSE "cd"

\* _handle_builtin_command: the first token is "cd"
HandleBuiltinCommand(c) == FirstToken(c) = "cd"

(***************************************************************************)
(* Output of a child: a chunk is named by the escape sequence it holds.    *)
(***************************************************************************)
Chunks == {"text", "1049h", "1047h"}
\* the sequences that set used_alternate_screen
AltScreenSeqs == {"1049h", "47h", "1047h"}
\* the sequences that make the relay switch the host terminal to raw mode
RawModeSeqs == {"1049h", "1h", "47h", "keypad"}

(***************************************************************************)
(* Environments.  A session runs in one of three environments, fixed when  *)
(* it starts; each bounds the inputs the session receives:                 *)
(*   "dirs": every cd argument, TmpDir changing status, plain output;      *)
(*   "pty":  every kind of output, with or without a terminal attached;    *)
(*   "intr": interrupts, a terminal attached, full-screen output;          *)
(*   "closed": the host runs with sys.stdout closed (or None), so that     *)
(*             every sys.stdout.isatty() raises;                           *)
(*   "order": no terminal attached, children that write several chunks.    *)
(***************************************************************************)
Scenarios == {"dirs", "pty", "intr", "closed", "order"}
ScnCds(s) == IF s = "dirs" THEN CdArgs ELSE {[k |-> "abs", p |-> TmpDir]}
ScnChunks(s) ==
    CASE s \in {"dirs", "closed", "order"} -> {"text"}
      [] s = "pty" -> Chunks
      [] OTHER -> {"1049h"}
ScnCalls(s) == IF s = "dirs" THEN MaxDirCalls ELSE MaxCalls
ScnPty(s) == IF s = "dirs" THEN MaxDirPty ELSE MaxPty
ScnIntr(s) == IF s = "intr" THEN MaxIntr ELSE 0
ScnFs(s) == s = "dirs"
ScnTty(s) ==
    CASE s = "pty" -> BOOLEAN
      [] s = "order" -> {FALSE}
      [] OTHER -> {TRUE}
ScnMaxChunks(s) == IF s = "order" THEN MaxOrderChunks ELSE MaxChunks
ScnTmp(s) == IF s = "dirs" THEN {"ok", "locked"} ELSE {"ok"}

VARIABLES
    \* ShellCommandExecutor fields
    current_dir, previous_dir, env_PWD, shell_history, output_buffer,
    used_alternate_screen, master_fd, slave_fd, process, original_settings,
    stop_io, io_thread,
    \* the main flow: position, try/except/finally phase, value to return,
    \* exception propagating through the finally block, command executed
    pc, phase, retval, raising, cmd,
    \* relay workers, one per PTY command
    relay,
    \* operating system: real cwd, status of TmpDir, host terminal mode,
    \* open descriptors, children, bytes waiting in the current PTY
    realCwd, tmpStatus, termMode, isatty, openM, openS, child, ptyBuf,
    \* the environment the session runs in (fixed at the start)
    scn,
    \* history variables of the verification
    ncalls, npty, nintr, sigTick, mClose, sClose, termAtCall, callPty,
    outcome, ret, spawnCwd, lastCdTarget, resetWritten, outHadAlt,
    intrRet, cleanupRuns, nwritten, callSnap, cdSucceeded, readOrder

progVars == <<current_dir, previous_dir, env_PWD, shell_history, output_buffer,
              used_alternate_screen, master_fd, slave_fd, process,
              original_settings, stop_io, io_thread>>
mainVars == <<pc, phase, retval, raising, cmd>>
osVars == <<realCwd, tmpStatus, termMode, isatty, openM, openS, child, ptyBuf,
           scn>>
histVars == <<ncalls, npty, nintr, sigTick, mClose, sClose, termAtCall, callPty,
              outcome, ret, spawnCwd, lastCdTarget, resetWritten, outHadAlt,
              intrRet, cleanupRuns, nwritten, callSnap, cdSucceeded,
              readOrder>>
vars == <<progVars, mainVars, relay, osVars, histVars>>

\* sys.stdout is closed: sys.stdout.isatty() raises ValueError
StdoutClosed == scn = "closed"

\* identities of PTY pairs, their children and their relay workers
MaxOf(a, b) == IF a > b THEN a ELSE b
PtyIds == 1 .. MaxOf(MaxPty, MaxDirPty)

\* a return value: kind, captured chunks, exit code
Ret(kind, text, code) == [kind |-> kind, text |-> text, code |-> code]
NoRet == Ret("none", << >>, 0)

\* the directory state a call starts from: tracked, previous, PWD, real
DirState == <<current_dir, previous_dir, env_PWD, realCwd>>
NoSnap == << >>

(***************************************************************************)
(* The file system seen by os.path.isdir, os.chdir and os.getcwd.          *)
(***************************************************************************)
Status(p) ==
    IF p = TmpDir THEN tmpStatus
    ELSE IF p \in FixedDirs THEN "ok" ELSE "gone"

IsDir(p) == Status(p) \in {"ok", "locked"}
ChdirOk(p) == Status(p) = "ok"
\* os.getcwd() raises when the working directory has been removed
GetcwdOk == Status(realCwd) # "gone"

(***************************************************************************)
(* _sync_directory_state as a function of the state it reads: the new      *)
(* tracked directory, PWD, real directory, and whether it raises.          *)
(***************************************************************************)
SyncDirectoryState(cur, pwd, real) ==
    IF ~GetcwdOk
    THEN \* getcwd raises in the try, and again in the handler
         [cur |-> cur, pwd |-> pwd, real |-> real, raised |-> TRUE]
    ELSE IF real = cur
    THEN [cur |-> cur, pwd |-> pwd, real |-> real, raised |-> FALSE]
    ELSE IF ChdirOk(cur)
    THEN [cur |-> cur, pwd |-> pwd, real |-> cur, raised |-> FALSE]
    ELSE \* chdir raised: tracking follows reality
         [cur |-> real, pwd |-> real, real |-> real, raised |-> FALSE]

(***************************************************************************)
(* _handle_cd_command as a function: new tracked directory, previous       *)
(* directory, PWD, real directory and the returned string.                 *)
(***************************************************************************)
CdNewDir(arg, cur, prev) ==
    CASE arg.k = "none" -> HomeDir
      [] arg.k = "dash" -> prev
      [] arg.k = "tilde" -> HomeDir \o arg.p
      [] arg.k = "abs" -> arg.p
      [] OTHER -> JoinPath(cur, arg.p)

CdKeep(cur, prev, pwd, real, kind) ==
    [cur |-> cur, prev |-> prev, pwd |-> pwd, real |-> real, kind |-> kind]

HandleCdCommand(arg, cur, prev, pwd, real) ==
    IF arg.k = "dash" /\ prev = NoDir
    THEN CdKeep(cur, prev, pwd, real, "cd_noprev")
    ELSE LET resolved == AbsPath(CdNewDir(arg, cur, prev)) IN
         IF ~IsDir(resolved)
         THEN CdKeep(cur, prev, pwd, real, "cd_nosuch")
         ELSE IF ChdirOk(resolved)
         THEN [cur |-> resolved, prev |-> cur, pwd |-> resolved,
               real |-> resolved, kind |-> "empty"]
         ELSE \* os.chdir raised after the two assignments
              [cur |-> resolved, prev |-> cur, pwd |-> pwd,
               real |-> real, kind |-> "cd_exc"]

(***************************************************************************)
(* Initial state: the state after __init__.                                *)
(***************************************************************************)
Init ==
    /\ current_dir = StartDir
    /\ previous_dir = NoDir
    /\ env_PWD = HostEnvPWD
    /\ shell_history = << >>
    /\ output_buffer = << >>
    /\ used_alternate_screen = FALSE
    /\ master_fd = 0
    /\ slave_fd = 0
    /\ process = 0
    /\ original_settings = "none"
    /\ stop_io = FALSE
    /\ io_thread = 0
    /\ pc = "idle"
    /\ phase = "none"
    /\ retval = NoRet
    /\ raising = FALSE
    /\ cmd = RunCmd
    /\ relay = [k \in PtyIds |-> [pc |-> "off", raw |-> FALSE, data |-> "none"]]
    /\ realCwd = StartDir
    /\ scn \in Scenarios
    /\ tmpStatus \in ScnTmp(scn)
    /\ termMode = "cooked"
    /\ isatty \in ScnTty(scn)
    /\ openM = {}
    /\ openS = {}
    /\ child = [k \in PtyIds |-> [st |-> "none", code |-> 0]]
    /\ ptyBuf = << >>
    /\ ncalls = 0
    /\ npty = 0
    /\ nintr = 0
    /\ sigTick = FALSE
    /\ mClose = [k \in PtyIds |-> 0]
    /\ sClose = [k \in PtyIds |-> 0]
    /\ termAtCall = "cooked"
    /\ callPty = 0
    /\ outcome = "none"
    /\ ret = NoRet
    /\ spawnCwd = NoDir
    /\ lastCdTarget = StartDir
    /\ resetWritten = FALSE
    /\ outHadAlt = FALSE
    /\ intrRet = "none"
    /\ cleanupRuns = 0
    /\ nwritten = 0
    /\ callSnap = NoSnap
    /\ cdSucceeded = FALSE
    /\ readOrder = << >>

\* the main flow is between calls
Idle == pc \in {"idle", "returned", "raised"}

\* the call returns `r` to the caller
Return(r) ==
    /\ pc' = "returned"
    /\ outcome' = "returned"
    /\ cmd' = RunCmd
    /\ callSnap' = NoSnap
    /\ ret' = r
    /\ phase' = "none"
    /\ retval' = NoRet
    /\ raising' = FALSE

\* an exception leaves execute_shell_command
Escape ==
    /\ pc' = "raised"
    /\ outcome' = "raised"
    /\ cmd' = RunCmd
    /\ callSnap' = NoSnap
    /\ ret' = NoRet
    /\ phase' = "none"
    /\ retval' = NoRet
    /\ raising' = FALSE

(***************************************************************************)
(* execute_shell_command, lines 46-73.                                     *)
(***************************************************************************)
\* lines 50-53: the command enters the history, the flag is reset
Call(c) ==
    /\ Idle
    /\ ncalls < ScnCalls(scn)
    /\ c \in ScnCds(scn) \cup {RunCmd}
    /\ c = RunCmd => npty < ScnPty(scn)
    /\ shell_history' = Append(shell_history, FirstToken(c))
    /\ used_alternate_screen' = FALSE
    /\ cmd' = c
    /\ pc' = "sync1"
    /\ phase' = "outer"
    /\ retval' = NoRet
    /\ raising' = FALSE
    /\ ncalls' = ncalls + 1
    /\ termAtCall' = termMode
    /\ callPty' = 0
    /\ resetWritten' = FALSE
    /\ outHadAlt' = FALSE
    /\ cleanupRuns' = 0
    /\ outcome' = "running"
    /\ ret' = NoRet
    /\ spawnCwd' = NoDir
    /\ intrRet' = "none"
    /\ callSnap' = DirState
    /\ UNCHANGED <<current_dir, previous_dir, env_PWD, output_buffer,
                   master_fd, slave_fd, process, original_settings, stop_io,
                   io_thread, relay, realCwd, tmpStatus, termMode, isatty,
                   openM, openS, child, ptyBuf, scn, npty, nintr, sigTick,
                   mClose, sClose, lastCdTarget, nwritten, cdSucceeded,
                   readOrder>>

\* line 56, then the dispatch of line 59; a raise reaches the handler of line 72
ExecSync ==
    /\ pc = "sync1"
    /\ LET s == SyncDirectoryState(current_dir, env_PWD, realCwd) IN
       /\ current_dir' = s.cur
       /\ env_PWD' = s.pwd
       /\ realCwd' = s.real
       /\ IF s.raised
          THEN Return(Ret("error", << >>, 0))
          ELSE /\ pc' = IF HandleBuiltinCommand(cmd) THEN "builtin" ELSE "p_begin"
               /\ phase' = IF HandleBuiltinCommand(cmd) THEN "outer" ELSE "try"
               /\ UNCHANGED <<retval, raising, outcome, ret, cmd, callSnap>>
    /\ UNCHANGED <<previous_dir, shell_history, output_buffer,
                   used_alternate_screen, master_fd, slave_fd, process,
                   original_settings, stop_io, io_thread, relay, tmpStatus,
                   termMode, isatty, openM, openS, child, ptyBuf, scn, ncalls,
                   npty, nintr, sigTick, mClose, sClose, termAtCall, callPty,
                   spawnCwd, lastCdTarget, resetWritten, outHadAlt, intrRet,
                   cleanupRuns, nwritten, cdSucceeded, readOrder>>

\* lines 61-62: the second synchronization, then _get_builtin_output
ExecBuiltin ==
    /\ pc = "builtin"
    /\ LET s == SyncDirectoryState(current_dir, env_PWD, realCwd)
           r == HandleCdCommand(cmd, s.cur, previous_dir, s.pwd, s.real)
       IN IF s.raised
          THEN /\ Return(Ret("error", << >>, 0))
               /\ UNCHANGED <<current_dir, previous_dir, env_PWD, realCwd,
                              lastCdTarget, cdSucceeded>>
          ELSE /\ current_dir' = r.cur
               /\ previous_dir' = r.prev
               /\ env_PWD' = r.pwd
               /\ realCwd' = r.real
               /\ lastCdTarget' = IF r.kind = "empty" THEN r.cur ELSE lastCdTarget
               /\ cdSucceeded' = (cdSucceeded \/ r.kind = "empty")
               /\ Return(Ret(r.kind, << >>, 0))
    /\ UNCHANGED <<shell_history, output_buffer, used_alternate_screen,
                   master_fd, slave_fd, process, original_settings, stop_io,
                   io_thread, relay, tmpStatus, termMode, isatty, openM,
                   openS, child, ptyBuf, scn, ncalls, npty, nintr, sigTick,
                   mClose, sClose, termAtCall, callPty, spawnCwd,
                   resetWritten, outHadAlt, intrRet, cleanupRuns, nwritten,
                   readOrder>>

\* reset_state, lines 458-463; os.getcwd() raising leaves the state as it is
ResetState ==
    /\ Idle
    /\ ncalls < ScnCalls(scn)
    /\ ncalls' = ncalls + 1
    /\ pc' = "idle"
    /\ IF GetcwdOk
       THEN /\ current_dir' = realCwd
            /\ env_PWD' = HostEnvPWD
            /\ shell_history' = << >>
            /\ output_buffer' = << >>
       ELSE UNCHANGED <<current_dir, env_PWD, shell_history, output_buffer>>
    /\ UNCHANGED <<previous_dir, used_alternate_screen, master_fd, slave_fd,
                   process, original_settings, stop_io, io_thread, phase,
                   retval, raising, cmd, relay, realCwd, tmpStatus, termMode,
                   isatty, openM, openS, child, ptyBuf, scn, npty, nintr,
                   sigTick, mClose, sClose, termAtCall, callPty, outcome, ret,
                   spawnCwd, lastCdTarget, resetWritten, outHadAlt, intrRet,
                   cleanupRuns, nwritten, callSnap, cdSucceeded, readOrder>>

\* interrupt_current_command, lines 435-444
ChildActive == process # 0 /\ child[process].st = "running"

\* interrupt_current_command without the poll() of line 437: a held process
\* handle alone counts as a running child
InterruptNoPoll ==
    /\ ScnIntr(scn) > 0
    /\ IF process # 0
       THEN /\ nintr < ScnIntr(scn)
            /\ nintr' = nintr + 1
            /\ sigTick' = ~sigTick
            /\ intrRet' = "true"
       ELSE /\ intrRet' = "false"
            /\ UNCHANGED <<nintr, sigTick>>
    /\ UNCHANGED <<current_dir, previous_dir, env_PWD, shell_history,
                   output_buffer, used_alternate_screen, master_fd, slave_fd,
                   process, original_settings, stop_io, io_thread, pc, phase,
                   retval, raising, cmd, relay, realCwd, tmpStatus, termMode,
                   isatty, openM, openS, child, ptyBuf, scn, ncalls, npty,
                   mClose, sClose, termAtCall, callPty, outcome, ret,
                   spawnCwd, lastCdTarget, resetWritten, outHadAlt,
                   cleanupRuns, nwritten, callSnap, cdSucceeded, readOrder>>

InterruptCurrentCommand ==
    /\ ScnIntr(scn) > 0
    /\ IF ChildActive
       THEN /\ nintr < ScnIntr(scn)
            /\ nintr' = nintr + 1
            /\ sigTick' = ~sigTick
            /\ intrRet' = "true"
       ELSE /\ intrRet' = "false"
            /\ UNCHANGED <<nintr, sigTick>>
    /\ UNCHANGED <<current_dir, previous_dir, env_PWD, shell_history,
                   output_buffer, used_alternate_screen, master_fd, slave_fd,
                   process, original_settings, stop_io, io_thread, pc, phase,
                   retval, raising, cmd, relay, realCwd, tmpStatus, termMode,
                   isatty, openM, openS, child, ptyBuf, scn, ncalls, npty,
                   mClose, sClose, termAtCall, callPty, outcome, ret,
                   spawnCwd, lastCdTarget, resetWritten, outHadAlt,
                   cleanupRuns, nwritten, callSnap, cdSucceeded, readOrder>>

(***************************************************************************)
(* The environment: another process changes the status of TmpDir between   *)
(* two calls.  A removed directory stays removed.                          *)
(***************************************************************************)
FsChange ==
    /\ ScnFs(scn)
    /\ Idle
    /\ tmpStatus # "gone"
    /\ tmpStatus' \in {"ok", "locked", "gone"} \ {tmpStatus}
    /\ UNCHANGED <<current_dir, previous_dir, env_PWD, shell_history,
                   output_buffer, used_alternate_screen, master_fd, slave_fd,
                   process, original_settings, stop_io, io_thread, pc, phase,
                   retval, raising, cmd, relay, realCwd, termMode, isatty,
                   openM, openS, child, ptyBuf, scn, ncalls, npty, nintr,
                   sigTick, mClose, sClose, termAtCall, callPty, outcome, ret,
                   spawnCwd, lastCdTarget, resetWritten, outHadAlt, intrRet,
                   cleanupRuns, nwritten, callSnap, cdSucceeded, readOrder>>

(***************************************************************************)
(* _execute_with_pty, lines 97-188.  An exception raised in the try block  *)
(* enters the handler of line 184; each handler runs _cleanup_pty and the  *)
(* finally block runs it again.                                            *)
(***************************************************************************)
\* an exception other than KeyboardInterrupt is raised inside the try block
RaiseInTry ==
    /\ pc' = "c_stop"
    /\ phase' = "h_exc"

\* lines 101-106: buffer and stop signal cleared, terminal attributes saved
PBegin ==
    /\ pc = "p_begin"
    /\ output_buffer' = << >>
    /\ stop_io' = FALSE
    /\ original_settings' = IF isatty THEN termMode ELSE original_settings
    /\ pc' = "p_open"
    /\ UNCHANGED <<current_dir, previous_dir, env_PWD, shell_history,
                   used_alternate_screen, master_fd, slave_fd, process,
                   io_thread, phase, retval, raising, cmd, relay, realCwd,
                   tmpStatus, termMode, isatty, openM, openS, child, ptyBuf,
                   scn, ncalls, npty, nintr, sigTick, mClose, sClose,
                   termAtCall, callPty, outcome, ret, spawnCwd, lastCdTarget,
                   resetWritten, outHadAlt, intrRet, cleanupRuns, nwritten,
                   callSnap, cdSucceeded, readOrder>>

\* lines 109-112: pty.openpty(), which may fail, then _set_pty_size, whose
\* sys.stdout.isatty() (line 90) raises when stdout is closed
POpen ==
    /\ pc = "p_open"
    /\ \/ /\ master_fd' = npty + 1
          /\ slave_fd' = npty + 1
          /\ openM' = openM \cup {npty + 1}
          /\ openS' = openS \cup {npty + 1}
          /\ ptyBuf' = << >>
          /\ callPty' = npty + 1
          /\ npty' = npty + 1
          /\ nwritten' = 0
          /\ IF StdoutClosed
             THEN RaiseInTry
             ELSE /\ pc' = "p_spawn"
                  /\ UNCHANGED phase
       \/ /\ RaiseInTry
          /\ UNCHANGED <<master_fd, slave_fd, openM, openS, ptyBuf, callPty,
                         npty, nwritten>>
    /\ UNCHANGED <<current_dir, previous_dir, env_PWD, shell_history,
                   output_buffer, used_alternate_screen, process,
                   original_settings, stop_io, io_thread, retval, raising,
                   cmd, relay, realCwd, tmpStatus, termMode, isatty, child,
                   scn, ncalls, nintr, sigTick, mClose, sClose, termAtCall,
                   outcome, ret, spawnCwd, lastCdTarget, resetWritten,
                   outHadAlt, intrRet, cleanupRuns, callSnap, cdSucceeded,
                   readOrder>>

\* lines 115-134: subprocess.Popen with cwd = current_dir; it raises when
\* the shell cannot be started or the directory cannot be entered
PSpawn ==
    /\ pc = "p_spawn"
    /\ \/ /\ ChdirOk(current_dir)
          /\ process' = callPty
          /\ child' = [child EXCEPT ![callPty] = [st |-> "running", code |-> 0]]
          /\ spawnCwd' = current_dir
          /\ pc' = "p_closeslave"
          /\ UNCHANGED phase
       \/ /\ RaiseInTry
          /\ UNCHANGED <<process, child, spawnCwd>>
    /\ UNCHANGED <<current_dir, previous_dir, env_PWD, shell_history,
                   output_buffer, used_alternate_screen, master_fd, slave_fd,
                   original_settings, stop_io, io_thread, retval, raising,
                   cmd, relay, realCwd, tmpStatus, termMode, isatty, openM,
                   openS, ptyBuf, scn, ncalls, npty, nintr, sigTick, mClose,
                   sClose, termAtCall, callPty, outcome, ret, lastCdTarget,
                   resetWritten, outHadAlt, intrRet, cleanupRuns, nwritten,
                   callSnap, cdSucceeded, readOrder>>

\* lines 137-142: the slave end is closed, then tty.setraw, which may fail
PCloseSlave ==
    /\ pc = "p_closeslave"
    /\ openS' = openS \ {slave_fd}
    /\ sClose' = [sClose EXCEPT ![slave_fd] = @ + 1]
    /\ slave_fd' = 0
    /\ IF isatty
       THEN \/ /\ termMode' = "raw"
               /\ pc' = "p_start"
               /\ UNCHANGED phase
            \/ /\ RaiseInTry
               /\ UNCHANGED termMode
       ELSE /\ pc' = "p_start"
            /\ UNCHANGED <<phase, termMode>>
    /\ UNCHANGED <<current_dir, previous_dir, env_PWD, shell_history,
                   output_buffer, used_alternate_screen, master_fd, process,
                   original_settings, stop_io, io_thread, retval, raising,
                   cmd, relay, realCwd, tmpStatus, isatty, openM, child,
                   ptyBuf, scn, ncalls, npty, nintr, sigTick, mClose,
                   termAtCall, callPty, outcome, ret, spawnCwd, lastCdTarget,
                   resetWritten, outHadAlt, intrRet, cleanupRuns, nwritten,
                   callSnap, cdSucceeded, readOrder>>

\* lines 145-146: the relay worker is started
PStart ==
    /\ pc = "p_start"
    /\ io_thread' = callPty
    /\ relay' = [relay EXCEPT ![callPty] =
                    [pc |-> "check", raw |-> FALSE, data |-> "none"]]
    /\ pc' = "p_wait"
    /\ UNCHANGED <<current_dir, previous_dir, env_PWD, shell_history,
                   output_buffer, used_alternate_screen, master_fd, slave_fd,
                   process, original_settings, stop_io, phase, retval,
                   raising, cmd, realCwd, tmpStatus, termMode, isatty, openM,
                   openS, child, ptyBuf, scn, ncalls, npty, nintr, sigTick,
                   mClose, sClose, termAtCall, callPty, outcome, ret,
                   spawnCwd, lastCdTarget, resetWritten, outHadAlt, intrRet,
                   cleanupRuns, nwritten, callSnap, cdSucceeded, readOrder>>

\* line 149: process.wait() returns once the child has exited
PWait ==
    /\ pc = "p_wait"
    /\ child[process].st = "exited"
    /\ pc' = "p_stop"
    /\ UNCHANGED <<current_dir, previous_dir, env_PWD, shell_history,
                   output_buffer, used_alternate_screen, master_fd, slave_fd,
                   process, original_settings, stop_io, io_thread, phase,
                   retval, raising, cmd, relay, realCwd, tmpStatus, termMode,
                   isatty, openM, openS, child, ptyBuf, scn, ncalls, npty,
                   nintr, sigTick, mClose, sClose, termAtCall, callPty,
                   outcome, ret, spawnCwd, lastCdTarget, resetWritten,
                   outHadAlt, intrRet, cleanupRuns, nwritten, callSnap,
                   cdSucceeded, readOrder>>

\* line 152
PStop ==
    /\ pc = "p_stop"
    /\ stop_io' = TRUE
    /\ pc' = "p_join"
    /\ UNCHANGED <<current_dir, previous_dir, env_PWD, shell_history,
                   output_buffer, used_alternate_screen, master_fd, slave_fd,
                   process, original_settings, io_thread, phase, retval,
                   raising, cmd, relay, realCwd, tmpStatus, termMode, isatty,
                   openM, openS, child, ptyBuf, scn, ncalls, npty, nintr,
                   sigTick, mClose, sClose, termAtCall, callPty, outcome, ret,
                   spawnCwd, lastCdTarget, resetWritten, outHadAlt, intrRet,
                   cleanupRuns, nwritten, callSnap, cdSucceeded, readOrder>>

\* lines 153-154: the worker has ended
PJoinDone ==
    /\ pc = "p_join"
    /\ relay[io_thread].pc = "done"
    /\ pc' = "p_finish"
    /\ UNCHANGED <<current_dir, previous_dir, env_PWD, shell_history,
                   output_buffer, used_alternate_screen, master_fd, slave_fd,
                   process, original_settings, stop_io, io_thread, phase,
                   retval, raising, cmd, relay, realCwd, tmpStatus, termMode,
                   isatty, openM, openS, child, ptyBuf, scn, ncalls, npty,
                   nintr, sigTick, mClose, sClose, termAtCall, callPty,
                   outcome, ret, spawnCwd, lastCdTarget, resetWritten,
                   outHadAlt, intrRet, cleanupRuns, nwritten, callSnap,
                   cdSucceeded, readOrder>>

\* lines 153-154: the join times out with the worker still running
PJoinTimeout ==
    /\ pc = "p_join"
    /\ relay[io_thread].pc # "done"
    /\ pc' = "p_finish"
    /\ UNCHANGED <<current_dir, previous_dir, env_PWD, shell_history,
                   output_buffer, used_alternate_screen, master_fd, slave_fd,
                   process, original_settings, stop_io, io_thread, phase,
                   retval, raising, cmd, relay, realCwd, tmpStatus, termMode,
                   isatty, openM, openS, child, ptyBuf, scn, ncalls, npty,
                   nintr, sigTick, mClose, sClose, termAtCall, callPty,
                   outcome, ret, spawnCwd, lastCdTarget, resetWritten,
                   outHadAlt, intrRet, cleanupRuns, nwritten, callSnap,
                   cdSucceeded, readOrder>>

(***************************************************************************)
(* The result string, lines 160-179.  A string is the sequence of its      *)
(* pieces: "text" is printable text, "ws" white space, "sgr" a colour or    *)
(* erase-line escape sequence, the other pieces are the screen-mode escape  *)
(* sequences of Chunks, which the expression of line 165 does not match.    *)
(***************************************************************************)
\* str.strip(), lines 160 and 166
RECURSIVE LStrip(_)
LStrip(s) == IF s # << >> /\ Head(s) = "ws" THEN LStrip(Tail(s)) ELSE s
RECURSIVE RStrip(_)
RStrip(s) ==
    IF s # << >> /\ s[Len(s)] = "ws"
    THEN RStrip(SubSeq(s, 1, Len(s) - 1)) ELSE s
Strip(s) == RStrip(LStrip(s))
\* line 165: re.sub(r"\x1b\[[0-9;]*[mK]", "", captured_output)
IsAnsi(c) == c = "sgr"
RECURSIVE RemoveAnsi(_)
RemoveAnsi(s) ==
    IF s = << >> THEN << >>
    ELSE IF IsAnsi(Head(s)) THEN RemoveAnsi(Tail(s))
    ELSE <<Head(s)>> \o RemoveAnsi(Tail(s))
\* lines 160-166
CleanOutput(buf) == Strip(RemoveAnsi(Strip(buf)))
\* str(exit_code)
CodeStr(n) == IF n = 0 THEN "0" ELSE IF n = 1 THEN "1" ELSE "2"
\* line 174: the cross-mark emoji, a space, the fixed words, the code
ExitMarker(n) == <<"[cross mark] ", "Command exited with code ", CodeStr(n)>>

\* lines 169-179, with the emptiness test of line 176 applied to the
\* captured text before the escape sequences are removed
PtyResult_TestsCaptured(buf, code) ==
    LET clean == CleanOutput(buf) IN
    IF code = 0 THEN Ret("output", clean, code)
    ELSE IF Strip(buf) # << >>
         THEN Ret("exitcode", clean \o <<"\n">> \o ExitMarker(code), code)
         ELSE Ret("exitcode", ExitMarker(code), code)

\* the string of lines 160-179 from the buffer and the exit code
PtyResult(buf, code) ==
    LET clean == CleanOutput(buf) IN
    IF code = 0 THEN Ret("output", clean, code)
    ELSE IF clean # << >>
         THEN Ret("exitcode", clean \o <<"\n">> \o ExitMarker(code), code)
         ELSE Ret("exitcode", ExitMarker(code), code)

\* lines 157-179: _update_directory_state, then the result is assembled
PFinish ==
    /\ pc = "p_finish"
    /\ LET s == SyncDirectoryState(current_dir, env_PWD, realCwd) IN
       /\ current_dir' = s.cur
       /\ env_PWD' = s.pwd
       /\ realCwd' = s.real
       /\ IF s.raised
          THEN /\ RaiseInTry
               /\ UNCHANGED retval
          ELSE /\ retval' = PtyResult(output_buffer, child[process].code)
               /\ pc' = "c_stop"
               /\ phase' = "finally"
    /\ UNCHANGED <<previous_dir, shell_history, output_buffer,
                   used_alternate_screen, master_fd, slave_fd, process,
                   original_settings, stop_io, io_thread, raising, cmd, relay,
                   tmpStatus, termMode, isatty, openM, openS, child, ptyBuf,
                   scn, ncalls, npty, nintr, sigTick, mClose, sClose,
                   termAtCall, callPty, outcome, ret, spawnCwd, lastCdTarget,
                   resetWritten, outHadAlt, intrRet, cleanupRuns, nwritten,
                   callSnap, cdSucceeded, readOrder>>

(***************************************************************************)
(* _cleanup_pty, lines 290-368, one step per guarded block.                *)
(***************************************************************************)
InCleanup == pc \in {"c_stop", "c_alt", "c_nl", "c_restore", "c_master",
                     "c_slave", "c_term", "c_kill"}

\* the end of a _cleanup_pty run: a handler returns its string through the
\* finally block (lines 183, 186), the finally block lets the return value
\* or the propagating exception pass (line 188)
CleanupEnd ==
    /\ cleanupRuns' = cleanupRuns + 1
    /\ IF phase = "finally"
       THEN IF raising
            THEN /\ Escape
            ELSE /\ pc' = "sync_post"
                 /\ phase' = "outer"
                 /\ UNCHANGED <<retval, raising, outcome, ret, cmd, callSnap>>
       ELSE /\ retval' = Ret(IF phase = "h_kbd" THEN "interrupted" ELSE "error",
                             << >>, 0)
            /\ pc' = "c_stop"
            /\ phase' = "finally"
            /\ UNCHANGED <<raising, outcome, ret, cmd, callSnap>>

\* line 294
CStop ==
    /\ pc = "c_stop"
    /\ stop_io' = TRUE
    /\ pc' = "c_alt"
    /\ UNCHANGED <<current_dir, previous_dir, env_PWD, shell_history,
                   output_buffer, used_alternate_screen, master_fd, slave_fd,
                   process, original_settings, io_thread, phase, retval,
                   raising, cmd, relay, realCwd, tmpStatus, termMode, isatty,
                   openM, openS, child, ptyBuf, scn, ncalls, npty, nintr,
                   sigTick, mClose, sClose, termAtCall, callPty, outcome, ret,
                   spawnCwd, lastCdTarget, resetWritten, outHadAlt, intrRet,
                   cleanupRuns, nwritten, callSnap, cdSucceeded, readOrder>>

\* lines 297-315: the reset sequences, only if the flag is set; the
\* sys.stdout.isatty() of line 297 is outside the inner try block, so that
\* its exception is caught at line 367 and ends the run
CAlt ==
    /\ pc = "c_alt"
    /\ IF used_alternate_screen /\ StdoutClosed
       THEN /\ CleanupEnd
            /\ UNCHANGED resetWritten
       ELSE /\ resetWritten' =
                  (resetWritten \/ (used_alternate_screen /\ isatty))
            /\ pc' = "c_nl"
            /\ UNCHANGED <<cleanupRuns, phase, retval, raising, outcome, ret,
                           cmd, callSnap>>
    /\ UNCHANGED <<current_dir, previous_dir, env_PWD, shell_history,
                   output_buffer, used_alternate_screen, master_fd, slave_fd,
                   process, original_settings, stop_io, io_thread, relay,
                   realCwd, tmpStatus, termMode, isatty, openM, openS, child,
                   ptyBuf, scn, ncalls, npty, nintr, sigTick, mClose, sClose,
                   termAtCall, callPty, spawnCwd, lastCdTarget, outHadAlt,
                   intrRet, nwritten, cdSucceeded, readOrder>>

\* lines 318-326: the trailing newline; the sys.stdout.isatty() of line 318
\* is outside the inner try block as well
CNewline ==
    /\ pc = "c_nl"
    /\ IF StdoutClosed
       THEN CleanupEnd
       ELSE /\ pc' = "c_restore"
            /\ UNCHANGED <<cleanupRuns, phase, retval, raising, outcome, ret,
                           cmd, callSnap>>
    /\ UNCHANGED <<current_dir, previous_dir, env_PWD, shell_history,
                   output_buffer, used_alternate_screen, master_fd, slave_fd,
                   process, original_settings, stop_io, io_thread, relay,
                   realCwd, tmpStatus, termMode, isatty, openM, openS, child,
                   ptyBuf, scn, ncalls, npty, nintr, sigTick, mClose, sClose,
                   termAtCall, callPty, spawnCwd, lastCdTarget, resetWritten,
                   outHadAlt, intrRet, nwritten, cdSucceeded, readOrder>>

\* lines 329-335: the saved attributes are put back
CRestore ==
    /\ pc = "c_restore"
    /\ termMode' = IF original_settings # "none" /\ isatty
                   THEN original_settings ELSE termMode
    /\ pc' = "c_master"
    /\ UNCHANGED <<current_dir, previous_dir, env_PWD, shell_history,
                   output_buffer, used_alternate_screen, master_fd, slave_fd,
                   process, original_settings, stop_io, io_thread, phase,
                   retval, raising, cmd, relay, realCwd, tmpStatus, isatty,
                   openM, openS, child, ptyBuf, scn, ncalls, npty, nintr,
                   sigTick, mClose, sClose, termAtCall, callPty, outcome, ret,
                   spawnCwd, lastCdTarget, resetWritten, outHadAlt, intrRet,
                   cleanupRuns, nwritten, callSnap, cdSucceeded, readOrder>>

\* lines 338-344
CMaster ==
    /\ pc = "c_master"
    /\ IF master_fd # 0
       THEN /\ openM' = openM \ {master_fd}
            /\ mClose' = [mClose EXCEPT ![master_fd] = @ + 1]
            /\ master_fd' = 0
            /\ ptyBuf' = << >>
       ELSE UNCHANGED <<openM, mClose, master_fd, ptyBuf>>
    /\ pc' = "c_slave"
    /\ UNCHANGED <<current_dir, previous_dir, env_PWD, shell_history,
                   output_buffer, used_alternate_screen, slave_fd, process,
                   original_settings, stop_io, io_thread, phase, retval,
                   raising, cmd, relay, realCwd, tmpStatus, termMode, isatty,
                   openS, child, scn, ncalls, npty, nintr, sigTick, sClose,
                   termAtCall, callPty, outcome, ret, spawnCwd, lastCdTarget,
                   resetWritten, outHadAlt, intrRet, cleanupRuns, nwritten,
                   callSnap, cdSucceeded, readOrder>>

\* lines 346-351 without line 351: the slave is closed and the field keeps
\* its value
CSlave_NoClear ==
    /\ pc = "c_slave"
    /\ IF slave_fd # 0
       THEN /\ openS' = openS \ {slave_fd}
            /\ sClose' = [sClose EXCEPT ![slave_fd] = @ + 1]
       ELSE UNCHANGED <<openS, sClose>>
    /\ pc' = "c_term"
    /\ UNCHANGED <<current_dir, previous_dir, env_PWD, shell_history,
                   output_buffer, used_alternate_screen, master_fd, slave_fd,
                   process, original_settings, stop_io, io_thread, phase,
                   retval, raising, cmd, relay, realCwd, tmpStatus, termMode,
                   isatty, openM, child, ptyBuf, scn, ncalls, npty, nintr,
                   sigTick, mClose, termAtCall, callPty, outcome, ret,
                   spawnCwd, lastCdTarget, resetWritten, outHadAlt, intrRet,
                   cleanupRuns, nwritten, callSnap, cdSucceeded, readOrder>>

\* lines 346-351
CSlave ==
    /\ pc = "c_slave"
    /\ IF slave_fd # 0
       THEN /\ openS' = openS \ {slave_fd}
            /\ sClose' = [sClose EXCEPT ![slave_fd] = @ + 1]
            /\ slave_fd' = 0
       ELSE UNCHANGED <<openS, sClose, slave_fd>>
    /\ pc' = "c_term"
    /\ UNCHANGED <<current_dir, previous_dir, env_PWD, shell_history,
                   output_buffer, used_alternate_screen, master_fd, process,
                   original_settings, stop_io, io_thread, phase, retval,
                   raising, cmd, relay, realCwd, tmpStatus, termMode, isatty,
                   openM, child, ptyBuf, scn, ncalls, npty, nintr, sigTick,
                   mClose, termAtCall, callPty, outcome, ret, spawnCwd,
                   lastCdTarget, resetWritten, outHadAlt, intrRet,
                   cleanupRuns, nwritten, callSnap, cdSucceeded, readOrder>>

\* self.process = None (line 365): the exit status of the child goes with
\* the handle
Forget(p) ==
    IF p # 0 /\ child[p].st = "exited"
    THEN [child EXCEPT ![p].code = 0] ELSE child

\* lines 354-358: SIGTERM to the group of a child that still runs
CTerm ==
    /\ pc = "c_term"
    /\ IF ChildActive
       THEN /\ sigTick' = ~sigTick
            /\ pc' = "c_kill"
            /\ UNCHANGED <<process, child, cleanupRuns, phase, retval,
                           raising, outcome, ret, cmd, callSnap>>
       ELSE /\ process' = 0
            /\ child' = Forget(process)
            /\ CleanupEnd
            /\ UNCHANGED sigTick
    /\ UNCHANGED <<current_dir, previous_dir, env_PWD, shell_history,
                   output_buffer, used_alternate_screen, master_fd, slave_fd,
                   original_settings, stop_io, io_thread, relay, realCwd,
                   tmpStatus, termMode, isatty, openM, openS, ptyBuf, scn,
                   ncalls, npty, nintr, mClose, sClose, termAtCall, callPty,
                   spawnCwd, lastCdTarget, resetWritten, outHadAlt, intrRet,
                   nwritten, cdSucceeded, readOrder>>

\* lines 359-365 without the SIGKILL of lines 361-363: a child that survives
\* SIGTERM is left running and the handle is dropped
CKill_NoKill ==
    /\ pc = "c_kill"
    /\ child' = IF ChildActive THEN child ELSE Forget(process)
    /\ UNCHANGED sigTick
    /\ process' = 0
    /\ CleanupEnd
    /\ UNCHANGED <<current_dir, previous_dir, env_PWD, shell_history,
                   output_buffer, used_alternate_screen, master_fd, slave_fd,
                   original_settings, stop_io, io_thread, relay, realCwd,
                   tmpStatus, termMode, isatty, openM, openS, ptyBuf, scn,
                   ncalls, npty, nintr, mClose, sClose, termAtCall, callPty,
                   spawnCwd, lastCdTarget, resetWritten, outHadAlt, intrRet,
                   nwritten, cdSucceeded, readOrder>>

\* lines 359-365: after the grace period, SIGKILL if it still runs
CKill ==
    /\ pc = "c_kill"
    /\ IF ChildActive
       THEN /\ sigTick' = ~sigTick
            /\ child' = [child EXCEPT ![process] = [st |-> "exited", code |-> 0]]
       ELSE /\ child' = Forget(process)
            /\ UNCHANGED sigTick
    /\ process' = 0
    /\ CleanupEnd
    /\ UNCHANGED <<current_dir, previous_dir, env_PWD, shell_history,
                   output_buffer, used_alternate_screen, master_fd, slave_fd,
                   original_settings, stop_io, io_thread, relay, realCwd,
                   tmpStatus, termMode, isatty, openM, openS, ptyBuf, scn,
                   ncalls, npty, nintr, mClose, sClose, termAtCall, callPty,
                   spawnCwd, lastCdTarget, resetWritten, outHadAlt, intrRet,
                   nwritten, cdSucceeded, readOrder>>

\* line 68, then the return of line 70 (or of line 73 if the sync raises)
ExecPostSync ==
    /\ pc = "sync_post"
    /\ LET s == SyncDirectoryState(current_dir, env_PWD, realCwd) IN
       /\ current_dir' = s.cur
       /\ env_PWD' = s.pwd
       /\ realCwd' = s.real
       /\ Return(IF s.raised THEN Ret("error", << >>, 0) ELSE retval)
    /\ UNCHANGED <<previous_dir, shell_history, output_buffer,
                   used_alternate_screen, master_fd, slave_fd, process,
                   original_settings, stop_io, io_thread, relay, tmpStatus,
                   termMode, isatty, openM, openS, child, ptyBuf, scn, ncalls,
                   npty, nintr, sigTick, mClose, sClose, termAtCall, callPty,
                   spawnCwd, lastCdTarget, resetWritten, outHadAlt, intrRet,
                   cleanupRuns, nwritten, cdSucceeded, readOrder>>

(***************************************************************************)
(* A KeyboardInterrupt is delivered to the main flow.  The handler of line *)
(* 181 catches it inside the try block of _execute_with_pty only: `except  *)
(* Exception` (lines 72, 184, 367) does not catch it.                      *)
(***************************************************************************)
KeyboardInterrupt ==
    /\ ~Idle
    /\ nintr < ScnIntr(scn)
    /\ nintr' = nintr + 1
    /\ CASE phase = "try" ->
              /\ pc' = "c_stop"
              /\ phase' = "h_kbd"
              /\ UNCHANGED <<retval, raising, outcome, ret, cmd, callSnap>>
         [] phase \in {"h_kbd", "h_exc"} ->
              /\ pc' = "c_stop"
              /\ phase' = "finally"
              /\ raising' = TRUE
              /\ UNCHANGED <<retval, outcome, ret, cmd, callSnap>>
         [] OTHER -> Escape
    /\ UNCHANGED <<current_dir, previous_dir, env_PWD, shell_history,
                   output_buffer, used_alternate_screen, master_fd, slave_fd,
                   process, original_settings, stop_io, io_thread, relay,
                   realCwd, tmpStatus, termMode, isatty, openM, openS, child,
                   ptyBuf, scn, ncalls, npty, sigTick, mClose, sClose,
                   termAtCall, callPty, spawnCwd, lastCdTarget, resetWritten,
                   outHadAlt, intrRet, cleanupRuns, nwritten, cdSucceeded,
                   readOrder>>

(***************************************************************************)
(* _handle_pty_io, lines 190-288: the relay worker of PTY command k.       *)
(***************************************************************************)
\* lines 194-198: the loop condition
RCheck(k) ==
    /\ relay[k].pc = "check"
    /\ relay' = [relay EXCEPT ![k].pc =
                    IF ~stop_io /\ ChildActive THEN "read" ELSE "fin"]
    /\ UNCHANGED <<current_dir, previous_dir, env_PWD, shell_history,
                   output_buffer, used_alternate_screen, master_fd, slave_fd,
                   process, original_settings, stop_io, io_thread, pc, phase,
                   retval, raising, cmd, realCwd, tmpStatus, termMode, isatty,
                   openM, openS, child, ptyBuf, scn, ncalls, npty, nintr,
                   sigTick, mClose, sClose, termAtCall, callPty, outcome, ret,
                   spawnCwd, lastCdTarget, resetWritten, outHadAlt, intrRet,
                   cleanupRuns, nwritten, callSnap, cdSucceeded, readOrder>>

\* the terminal end of the PTY is still held by someone
SlaveHeld(fd) == fd \in openS \/ child[fd].st = "running"

\* lines 200-221, 269-275: select on self.master_fd and the read from it
RRead(k) ==
    /\ relay[k].pc = "read"
    /\ IF master_fd = 0 \/ master_fd \notin openM
       THEN /\ relay' = [relay EXCEPT ![k].pc = "fin"]
            /\ UNCHANGED <<ptyBuf, readOrder>>
       ELSE IF ptyBuf # << >>
       THEN /\ relay' = [relay EXCEPT ![k].pc = "proc", ![k].data = Head(ptyBuf)]
            /\ ptyBuf' = Tail(ptyBuf)
            /\ readOrder' = Append(readOrder, [w |-> k, fd |-> master_fd])
       ELSE /\ relay' = [relay EXCEPT ![k].pc =
                            IF SlaveHeld(master_fd) THEN "check" ELSE "fin"]
            /\ UNCHANGED <<ptyBuf, readOrder>>
    /\ UNCHANGED <<current_dir, previous_dir, env_PWD, shell_history,
                   output_buffer, used_alternate_screen, master_fd, slave_fd,
                   process, original_settings, stop_io, io_thread, pc, phase,
                   retval, raising, cmd, realCwd, tmpStatus, termMode, isatty,
                   openM, openS, child, scn, ncalls, npty, nintr, sigTick,
                   mClose, sClose, termAtCall, callPty, outcome, ret,
                   spawnCwd, lastCdTarget, resetWritten, outHadAlt, intrRet,
                   cleanupRuns, nwritten, callSnap, cdSucceeded>>

\* lines 223-268 without the raw_mode_set test of line 237: tty.setraw for
\* every chunk that holds an indicator sequence
RProcess_NoRawFlag(k) ==
    /\ relay[k].pc = "proc"
    /\ LET d == relay[k].data
           setraw == isatty /\ d \in RawModeSeqs
       IN /\ used_alternate_screen' =
                 (used_alternate_screen \/ d \in AltScreenSeqs)
          /\ termMode' = IF setraw THEN "raw" ELSE termMode
          /\ output_buffer' = IF StdoutClosed THEN output_buffer
                               ELSE Append(output_buffer, d)
          /\ relay' = [relay EXCEPT ![k].pc = "check",
                                    ![k].raw = (@ \/ setraw),
                                    ![k].data = "none"]
          /\ readOrder' = SelectSeq(readOrder, LAMBDA e : e.w # k)
    /\ UNCHANGED <<current_dir, previous_dir, env_PWD, shell_history,
                   master_fd, slave_fd, process, original_settings, stop_io,
                   io_thread, pc, phase, retval, raising, cmd, realCwd,
                   tmpStatus, isatty, openM, openS, child, ptyBuf, scn,
                   ncalls, npty, nintr, sigTick, mClose, sClose, termAtCall,
                   callPty, outcome, ret, spawnCwd, lastCdTarget,
                   resetWritten, outHadAlt, intrRet, cleanupRuns, nwritten,
                   callSnap, cdSucceeded>>

\* lines 223-268: flag, raw mode, capture; when the sys.stdout.isatty() of
\* line 255 raises, the handler of line 274 ends the pass before the capture
RProcess(k) ==
    /\ relay[k].pc = "proc"
    /\ LET d == relay[k].data
           setraw == ~relay[k].raw /\ isatty /\ d \in RawModeSeqs
       IN /\ used_alternate_screen' =
                 (used_alternate_screen \/ d \in AltScreenSeqs)
          /\ termMode' = IF setraw THEN "raw" ELSE termMode
          /\ output_buffer' = IF StdoutClosed THEN output_buffer
                               ELSE Append(output_buffer, d)
          /\ relay' = [relay EXCEPT ![k].pc = "check",
                                    ![k].raw = (@ \/ setraw),
                                    ![k].data = "none"]
          /\ readOrder' = SelectSeq(readOrder, LAMBDA e : e.w # k)
    /\ UNCHANGED <<current_dir, previous_dir, env_PWD, shell_history,
                   master_fd, slave_fd, process, original_settings, stop_io,
                   io_thread, pc, phase, retval, raising, cmd, realCwd,
                   tmpStatus, isatty, openM, openS, child, ptyBuf, scn,
                   ncalls, npty, nintr, sigTick, mClose, sClose, termAtCall,
                   callPty, outcome, ret, spawnCwd, lastCdTarget,
                   resetWritten, outHadAlt, intrRet, cleanupRuns, nwritten,
                   callSnap, cdSucceeded>>

\* lines 280-288: the worker restores the terminal if it set raw mode
RFinally(k) ==
    /\ relay[k].pc = "fin"
    /\ termMode' = IF relay[k].raw /\ original_settings # "none" /\ isatty
                   THEN original_settings ELSE termMode
    /\ relay' = [relay EXCEPT ![k] = [pc |-> "done", raw |-> FALSE,
                                      data |-> "none"]]
    /\ UNCHANGED <<current_dir, previous_dir, env_PWD, shell_history,
                   output_buffer, used_alternate_screen, master_fd, slave_fd,
                   process, original_settings, stop_io, io_thread, pc, phase,
                   retval, raising, cmd, realCwd, tmpStatus, isatty, openM,
                   openS, child, ptyBuf, scn, ncalls, npty, nintr, sigTick,
                   mClose, sClose, termAtCall, callPty, outcome, ret,
                   spawnCwd, lastCdTarget, resetWritten, outHadAlt, intrRet,
                   cleanupRuns, nwritten, callSnap, cdSucceeded, readOrder>>

(***************************************************************************)
(* The child of the current command: it writes to its terminal and exits.  *)
(***************************************************************************)
ChildWrite(c) ==
    /\ callPty # 0
    /\ child[callPty].st = "running"
    /\ callPty \in openM
    /\ nwritten < ScnMaxChunks(scn)
    /\ c \in ScnChunks(scn)
    /\ ptyBuf' = Append(ptyBuf, c)
    /\ nwritten' = nwritten + 1
    /\ outHadAlt' = (outHadAlt \/ c \in AltScreenSeqs)
    /\ UNCHANGED <<current_dir, previous_dir, env_PWD, shell_history,
                   output_buffer, used_alternate_screen, master_fd, slave_fd,
                   process, original_settings, stop_io, io_thread, pc, phase,
                   retval, raising, cmd, relay, realCwd, tmpStatus, termMode,
                   isatty, openM, openS, child, scn, ncalls, npty, nintr,
                   sigTick, mClose, sClose, termAtCall, callPty, outcome, ret,
                   spawnCwd, lastCdTarget, resetWritten, intrRet, cleanupRuns,
                   callSnap, cdSucceeded, readOrder>>

ChildExit(k, code) ==
    /\ child[k].st = "running"
    /\ child' = [child EXCEPT ![k] = [st |-> "exited", code |-> code]]
    /\ UNCHANGED <<current_dir, previous_dir, env_PWD, shell_history,
                   output_buffer, used_alternate_screen, master_fd, slave_fd,
                   process, original_settings, stop_io, io_thread, pc, phase,
                   retval, raising, cmd, relay, realCwd, tmpStatus, termMode,
                   isatty, openM, openS, ptyBuf, scn, ncalls, npty, nintr,
                   sigTick, mClose, sClose, termAtCall, callPty, outcome, ret,
                   spawnCwd, lastCdTarget, resetWritten, outHadAlt, intrRet,
                   cleanupRuns, nwritten, callSnap, cdSucceeded, readOrder>>

ExitCodes == {0, 1}

Next ==
    \/ \E c \in Commands : Call(c)
    \/ ExecSync
    \/ ExecBuiltin
    \/ ExecPostSync
    \/ ResetState
    \/ InterruptCurrentCommand
    \/ FsChange
    \/ PBegin
    \/ POpen
    \/ PSpawn
    \/ PCloseSlave
    \/ PStart
    \/ PWait
    \/ PStop
    \/ PJoinDone
    \/ PJoinTimeout
    \/ PFinish
    \/ CStop
    \/ CAlt
    \/ CNewline
    \/ CRestore
    \/ CMaster
    \/ CSlave
    \/ CTerm
    \/ CKill
    \/ KeyboardInterrupt
    \/ \E k \in PtyIds : RCheck(k) \/ RRead(k) \/ RProcess(k) \/ RFinally(k)
    \/ \E c \in Chunks : ChildWrite(c)
    \/ \E k \in PtyIds, code \in ExitCodes : ChildExit(k, code)

Spec == Init /\ [][Next]_vars

(***************************************************************************)
(* Scheduling.  The main flow and each relay worker are threads of one     *)
(* process: a thread that can take a step is eventually given the          *)
(* processor.  Nothing obliges the caller to call again, the child to      *)
(* write or to exit, or an interrupt to arrive.                            *)
(***************************************************************************)
\* a step of the relay worker of PTY command k (thread target, line 145)
RelayStep(k) == RCheck(k) \/ RRead(k) \/ RProcess(k) \/ RFinally(k)

\* a step of the main flow inside execute_shell_command
MainStep ==
    \/ ExecSync
    \/ ExecBuiltin
    \/ ExecPostSync
    \/ PBegin
    \/ POpen
    \/ PSpawn
    \/ PCloseSlave
    \/ PStart
    \/ PWait
    \/ PStop
    \/ PJoinDone
    \/ PJoinTimeout
    \/ PFinish
    \/ CStop
    \/ CAlt
    \/ CNewline
    \/ CRestore
    \/ CMaster
    \/ CSlave
    \/ CTerm
    \/ CKill

FairSpec ==
    /\ Init
    /\ [][Next]_vars
    /\ WF_vars(MainStep)
    /\ \A k \in PtyIds : WF_vars(RelayStep(k))

(***************************************************************************)
(* The result string as a function of the capture buffer and the exit      *)
(* code: a first PTY command whose child has exited and whose relay worker  *)
(* has ended, with every buffer of at most MaxBufLen pieces, taken from the *)
(* join of line 154 to the return of line 70.                              *)
(***************************************************************************)
MaxBufLen == 3
BufPieces == {"text", "ws", "sgr", "1049h"}
BoundedSeqs(S, n) == UNION {[1 .. m -> S] : m \in 0 .. n}
ResultCodes == {0, 1, 2}
HasPiece(buf, S) == \E i \in 1 .. Len(buf) : buf[i] \in S

ResultInit ==
    /\ current_dir = StartDir
    /\ previous_dir = NoDir
    /\ env_PWD = HostEnvPWD
    /\ shell_history = <<"run">>
    /\ output_buffer \in BoundedSeqs(BufPieces, MaxBufLen)
    /\ used_alternate_screen = HasPiece(output_buffer, AltScreenSeqs)
    /\ master_fd = 1
    /\ slave_fd = 0
    /\ process = 1
    /\ isatty \in BOOLEAN
    /\ original_settings = IF isatty THEN "cooked" ELSE "none"
    /\ stop_io = TRUE
    /\ io_thread = 1
    /\ pc = "p_finish"
    /\ phase = "try"
    /\ retval = NoRet
    /\ raising = FALSE
    /\ cmd = RunCmd
    /\ relay = [k \in PtyIds |->
                  [pc |-> IF k = 1 THEN "done" ELSE "off", raw |-> FALSE,
                   data |-> "none"]]
    /\ realCwd = StartDir
    /\ scn = "pty"
    /\ tmpStatus = "ok"
    /\ termMode = IF isatty /\ ~HasPiece(output_buffer, RawModeSeqs)
                  THEN "raw" ELSE "cooked"
    /\ openM = {1}
    /\ openS = {}
    /\ \E code \in ResultCodes :
          child = [k \in PtyIds |->
                     IF k = 1 THEN [st |-> "exited", code |-> code]
                     ELSE [st |-> "none", code |-> 0]]
    /\ ptyBuf = << >>
    /\ ncalls = 1
    /\ npty = 1
    /\ nintr = 0
    /\ sigTick = FALSE
    /\ mClose = [k \in PtyIds |-> 0]
    /\ sClose = [k \in PtyIds |-> IF k = 1 THEN 1 ELSE 0]
    /\ termAtCall = "cooked"
    /\ callPty = 1
    /\ outcome = "running"
    /\ ret = NoRet
    /\ spawnCwd = StartDir
    /\ lastCdTarget = StartDir
    /\ resetWritten = FALSE
    /\ outHadAlt = HasPiece(output_buffer, AltScreenSeqs)
    /\ intrRet = "none"
    /\ cleanupRuns = 0
    /\ nwritten = Len(output_buffer)
    /\ callSnap = <<StartDir, NoDir, HostEnvPWD, StartDir>>
    /\ cdSucceeded = FALSE
    /\ readOrder = << >>

ResultNext ==
    \/ PFinish
    \/ CStop
    \/ CAlt
    \/ CNewline
    \/ CRestore
    \/ CMaster
    \/ CSlave
    \/ CTerm
    \/ ExecPostSync

ResultSpec == ResultInit /\ [][ResultNext]_vars

(***************************************************************************)
(* Properties.                                                             *)
(***************************************************************************)
\* the step on which a call that took the PTY path returns (lines 68-70)
PtyReturnStep == pc = "sync_post" /\ pc' = "returned"
\* the step on which a cd command returns (line 62)
CdReturnStep == pc = "builtin" /\ pc' = "returned"

\* C1: after every execute_shell_command call returns, the tracked current
\* directory equals the real working directory of the process.
C1_TrackedEqualsRealAtReturn ==
    pc = "returned" => current_dir = realCwd

\* C2: when a call returns from the PTY path, the host terminal is in the
\* mode it had when the call began.
C2_TerminalRestoredAtReturn ==
    [][PtyReturnStep => termMode' = termAtCall]_vars

\* no descriptor of a PTY pair has been closed twice
C3_ClosedAtMostOnce ==
    \A k \in PtyIds : mClose[k] <= 1 /\ sClose[k] <= 1
\* the call that allocated a PTY pair has ended, by a return or by an
\* exception, with each descriptor closed once and none open
C3_ClosedAtExit ==
    (pc \in {"returned", "raised"} /\ callPty # 0) =>
        /\ mClose[callPty] = 1
        /\ sClose[callPty] = 1
        /\ callPty \notin openM
        /\ callPty \notin openS
\* C3: on every exit path of a call that allocated a PTY pair, the slave
\* descriptor has been closed exactly once, the master descriptor exactly
\* once and only by _cleanup_pty, and neither is open when the call ends.
C3_DescriptorsClosedOnce ==
    /\ [](C3_ClosedAtMostOnce /\ C3_ClosedAtExit)
    /\ [][(mClose' # mClose \/ (openM \ openM') # {}) => pc = "c_master"]_vars

\* C4: no failure escapes execute_shell_command: every call returns a string.
C4_NothingEscapes ==
    outcome # "raised"

\* C5: a cd command that returns an error string leaves the tracked
\* directory, the previous directory, PWD and the real directory as they
\* were before the call; the previous directory changes only on a cd that
\* returns the empty string.
C5_FailedCdChangesNothing ==
    [][/\ (CdReturnStep /\ ret'.kind # "empty") => DirState' = callSnap
       /\ previous_dir' # previous_dir => (CdReturnStep /\ ret'.kind = "empty")
      ]_vars

\* C6: `cd -` returns "No previous directory" if and only if no earlier cd
\* of the session succeeded; otherwise it swaps the tracked current and
\* previous directories.
C6_CdDashSwaps ==
    [][(CdReturnStep /\ cmd.k = "dash") =>
          /\ (ret'.kind = "cd_noprev") <=> ~cdSucceeded
          /\ cdSucceeded => /\ current_dir' = callSnap[2]
                            /\ previous_dir' = callSnap[1]
      ]_vars

\* C7: a child is spawned in the resolved target of the most recent
\* successful cd (the initial directory if there was none), as long as that
\* directory still exists.
C7_SpawnedInLastCdTarget ==
    [][(pc = "p_spawn" /\ pc' = "p_closeslave" /\ IsDir(lastCdTarget))
          => spawnCwd' = lastCdTarget]_vars

\* C8: interrupt_current_command with no active child returns false, sends
\* no signal and changes no variable of the session or of the command.
C8_InterruptWithoutChildIsNoOp ==
    [][(InterruptCurrentCommand /\ ~ChildActive) =>
          /\ intrRet' = "false"
          /\ UNCHANGED <<progVars, mainVars, relay, osVars, sigTick, nintr>>
      ]_vars

\* interrupt_current_command has returned false after a PTY command whose
\* cleanup dropped the child handle
C8_Witness ==
    /\ intrRet = "false"
    /\ pc \in {"sync_post", "returned"}
    /\ callPty # 0
    /\ child[callPty].st = "exited"
    /\ process = 0

\* C9: a _cleanup_pty run that follows a completed run for the same command
\* closes no descriptor and sends no signal.
C9_SecondCleanupIsNoOp ==
    [][(InCleanup /\ cleanupRuns >= 1) =>
          UNCHANGED <<openM, openS, mClose, sClose, sigTick>>]_vars

\* the second run has ended, after a first run that closed the master end
\* and killed the child
C9_Witness ==
    /\ pc = "sync_post"
    /\ cleanupRuns = 2
    /\ callPty # 0
    /\ mClose[callPty] = 1
    /\ sigTick

\* C10: the cleanup of a command writes the alternate-screen reset sequences
\* only if that command's own output contained an alternate-screen entry
\* sequence.
C10_ResetOnlyAfterOwnAltScreen ==
    resetWritten => outHadAlt

\* the step on which _execute_with_pty assembles its result (lines 160-179)
AssembleStep == pc = "p_finish" /\ pc' = "c_stop" /\ phase' = "finally"
\* the marker as the specification words it
MarkerAsSpecified(n) == <<"Command exited with code ", CodeStr(n)>>
ResultAsSpecified(clean, n) ==
    IF n = 0 THEN clean
    ELSE IF clean # << >> THEN clean \o <<"\n">> \o MarkerAsSpecified(n)
    ELSE MarkerAsSpecified(n)
\* the same with the marker as line 174 writes it
ResultAsCoded(clean, n) ==
    IF n = 0 THEN clean
    ELSE IF clean # << >> THEN clean \o <<"\n">> \o ExitMarker(n)
    ELSE ExitMarker(n)

C12_NoOutputLost ==
    [][AssembleStep =>
          /\ ptyBuf = << >>
          /\ Len(output_buffer) >= nwritten]_vars

C14_PwdEqualsTracked ==
    pc \in {"idle", "returned"} => env_PWD = current_dir

\* the relay worker of PTY command k has been started and has not ended
WorkerRunning(k) == relay[k].pc \notin {"off", "done"}

\* C15: at most one relay worker is running at any moment, and the relay
\* worker started for a command has ended when the call returns.
C15_OneWorkerAtATime ==
    /\ Cardinality({k \in PtyIds : WorkerRunning(k)}) <= 1
    /\ (pc = "returned" /\ callPty # 0) => ~WorkerRunning(callPty)

\* the chunk that worker k holds is the oldest chunk of its PTY that has
\* been read and not yet appended
HoldsOldest(k) ==
    \A i \in 1 .. Len(readOrder) :
        readOrder[i].w = k =>
            \A j \in 1 .. (i - 1) : readOrder[j].fd # readOrder[i].fd

\* C16: a chunk is appended to the capture buffer only when every chunk read
\* before it from the same PTY has been appended: the buffer receives the
\* output of a child in the order in which it was read.
C16_CapturedInReadOrder ==
    [][\A k \in PtyIds :
          (relay[k].pc = "proc" /\ relay'[k].pc = "check"
             /\ output_buffer' # output_buffer) => HoldsOldest(k)]_vars

\* the host terminal goes from another mode to raw mode
BecomesRaw == termMode # "raw" /\ termMode' = "raw"
\* line 142: the main flow calls tty.setraw after closing the slave end
MainSetraw == pc = "p_closeslave" /\ isatty /\ pc' = "p_start"
\* lines 237-250: worker k meets an indicator sequence with raw_mode_set
\* false and sets it
WorkerSetraw(k) ==
    /\ relay[k].pc = "proc"
    /\ relay[k].data \in RawModeSeqs
    /\ ~relay[k].raw
    /\ relay'[k].raw

\* C17 as stated: the terminal is switched to raw mode only in response to
\* the first indicator sequence seen in the child's output, hence never for a
\* command whose output holds no indicator sequence.
C17_RawOnlyOnIndicator ==
    [][BecomesRaw => \E k \in PtyIds : WorkerSetraw(k)]_vars

\* C17 amended: the terminal is switched to raw mode either by the main flow,
\* once per command right after the spawn whenever stdin is a terminal, or by
\* a relay worker in response to the first indicator sequence it reads; a
\* worker records raw mode only on such a sequence with a terminal attached.
C17_RawByMainOrFirstIndicator ==
    [][/\ BecomesRaw => (MainSetraw \/ \E k \in PtyIds : WorkerSetraw(k))
       /\ \A k \in PtyIds :
             (~relay[k].raw /\ relay'[k].raw) => (WorkerSetraw(k) /\ isatty)
      ]_vars

\* during a command with a terminal attached, the worker has met an
\* indicator sequence and recorded raw mode
C17_Witness ==
    /\ pc = "p_wait"
    /\ callPty # 0
    /\ relay[callPty].raw
    /\ termMode = "raw"
    /\ outHadAlt

\* C18: when an execute call has returned, the capture buffer holds only
\* text produced by that call: it is empty after a cd command, and after a
\* PTY command it holds no more chunks than that command's child wrote
\* (callPty is 0 at the return of a call that opened no PTY).
C18_BufferOnlyThisCall ==
    pc = "returned" =>
        IF callPty # 0
        THEN Len(output_buffer) <= nwritten
        ELSE output_buffer = << >>

\* the steps of _cleanup_pty in the order of lines 294-365
CleanupOrder ==
    <<"c_stop", "c_alt", "c_nl", "c_restore", "c_master", "c_slave",
      "c_term", "c_kill">>
\* a step of the main flow inside _cleanup_pty that no interrupt cuts short
CleanupStep == InCleanup /\ pc' # pc /\ nintr' = nintr
\* this step ends the current run of _cleanup_pty
CleanupRunEnds == CleanupStep /\ cleanupRuns' = cleanupRuns + 1

\* C19: _cleanup_pty goes through its steps in the fixed order stop signal,
\* reset writes, newline, attribute restore, close master, close slave,
\* terminate/kill, and a run ends only after the last of them: no failure in
\* a step keeps a later step from running.
C19_AllStepsInOrder ==
    [][/\ CleanupRunEnds => pc \in {"c_term", "c_kill"}
       /\ (CleanupStep /\ ~CleanupRunEnds) =>
             \E i \in 1..(Len(CleanupOrder) - 1) :
                 pc = CleanupOrder[i] /\ pc' = CleanupOrder[i + 1]
      ]_vars

\* the stop signal has been raised for PTY command k, or its child has exited
StopOrExit(k) == child[k].st = "exited" \/ (callPty = k /\ stop_io)

\* C20: once the stop signal has been raised for a command or its child has
\* exited, the relay worker of that command eventually leaves its loop and
\* terminates, whatever the main flow does in the meantime.
C20_WorkerTerminates ==
    \A k \in PtyIds : (WorkerRunning(k) /\ StopOrExit(k)) ~> ~WorkerRunning(k)

====
